---------------------------- MODULE Spec2Model ----------------------------
(***************************************************************************)
(* A model of the LSEQ sequence CRDT of nkohari/lseq.                      *)
(*                                                                         *)
(* src/src/Sequence.ts (the facade) and src/src/Op.ts (the operations) are *)
(* translated statement by statement.  The modules they import,            *)
(* './idents' (Ident, Segment, LSEQIdentGenerator) and './storage'         *)
(* (ArrayStorage), are not part of the sources at hand; they are modelled  *)
(* from sections 3, 4.1, 4.2 and 4.3 of the specification.                 *)
(*                                                                         *)
(* JavaScript values are tagged records, so that `undefined`, `null`,      *)
(* strings, numbers, identifiers, atoms and operations can be compared     *)
(* with each other as the program compares them.                           *)
(***************************************************************************)
EXTENDS Integers, Sequences, FiniteSets, TLC

VARIABLES
  storage,      \* storage[r]: the atoms of replica r's Storage, in array order
  idGenerator,  \* idGenerator[r]: replica r's generator (name, counter)
  maxDepth,     \* maxDepth[r]: the field Sequence.maxDepth of replica r
  last,         \* the last public call: its arguments, pre-state and outcome
  delivered,    \* delivered[r]: the operations apply() was called with on r
  clean,        \* clean[r]: every one of them once, no remove before its insert
  issued,       \* the identifiers allocated so far by any generator
  reissued,     \* an allocation returned an identifier allocated before
  ordered,      \* the pairs <<a, b>> of identifiers some storage has held a before b
  fate          \* fate[r][x]: what the operations applied on r made of identifier x

vars == <<storage, idGenerator, maxDepth, last, delivered, clean, issued, reissued,
          ordered, fate>>

----------------------------------------------------------------------------
(* Bounds of the model *)

\* Local allocations per replica (the generator's counter is unbounded).
MaxTime == 2

\* Allocations whose identifiers the history `issued` follows.
MaxIssued == 3

\* The largest logical time of an operation put on the wire.
MaxWireTime == 10

----------------------------------------------------------------------------
(* JavaScript values *)

Undefined == [tag |-> "undefined"]
Null == [tag |-> "null"]
Str(s) == [tag |-> "string", s |-> s]
Num(n) == [tag |-> "number", n |-> n]
IdentOf(path) == [tag |-> "ident", path |-> path]

IsIdent(v) == v.tag = "ident"

\* a < b as JavaScript evaluates it for the operands that occur here: a
\* comparison with undefined (NaN) is false.
JsLess(a, b) == a.tag = "number" /\ b.tag = "number" /\ a.n < b.n

----------------------------------------------------------------------------
(* Identifiers: specification sections 3 and 4.1 *)

\* Replica ids are strings; their order is the order of the strings.  "" is
\* the disambiguator of the sentinels and of a missing segment.
Replicas == {"a", "b"}
ReplicaRank(r) == CASE r = "" -> 0 [] r = "a" -> 1 [] r = "b" -> 2 [] OTHER -> 3

\* The identifier space has 2^Base positions at depth 1.
Base == 3

RECURSIVE Pow2(_)
Pow2(n) == IF n = 0 THEN 1 ELSE 2 * Pow2(n - 1)

\* A segment: a position and a disambiguator (replica id, local counter).
Segment(digit, replica, time) == [digit |-> digit, replica |-> replica, time |-> time]

\* -1, 0, 1: position first, then the disambiguator.
CompareSegment(s, t) ==
  IF s.digit # t.digit THEN (IF s.digit < t.digit THEN -1 ELSE 1)
  ELSE IF s.replica # t.replica
       THEN (IF ReplicaRank(s.replica) < ReplicaRank(t.replica) THEN -1 ELSE 1)
  ELSE IF s.time # t.time THEN (IF s.time < t.time THEN -1 ELSE 1)
  ELSE 0

\* Lexicographic over the segments; a strict prefix sorts first.
RECURSIVE ComparePath(_, _, _)
ComparePath(p, q, i) ==
  IF i > Len(p) /\ i > Len(q) THEN 0
  ELSE IF i > Len(p) THEN -1
  ELSE IF i > Len(q) THEN 1
  ELSE IF CompareSegment(p[i], q[i]) # 0 THEN CompareSegment(p[i], q[i])
  ELSE ComparePath(p, q, i + 1)

\* Ident.compare, on two identifiers.
Compare(a, b) == ComparePath(a.path, b.path, 1)

getDepth(id) == Len(id.path)

\* The two sentinels: MIN (depth 1, position 0), MAX (depth 1, position 2^Base - 1).
getBookends == << IdentOf(<<Segment(0, "", 0)>>),
                 IdentOf(<<Segment(Pow2(Base) - 1, "", 0)>>) >>

----------------------------------------------------------------------------
(* Ordered storage: specification section 4.3 *)

Atom(id, value) == [tag |-> "atom", id |-> id, value |-> value]

\* The outcome of a storage call: the atoms afterwards, and whether it raised.
\* Ordering and lookup compare the key with the stored identifiers segment by
\* segment; a key that is no identifier has no segments to read, which the
\* JavaScript runtime answers with a TypeError.
StorageResult(atoms, threw) == [atoms |-> atoms, threw |-> threw]

StorageSize(atoms) == Len(atoms)

\* get(pos): the atom at zero-based position pos counting the sentinels, or
\* undefined when pos is out of range.
StorageGet(atoms, pos) ==
  IF 0 <= pos /\ pos < Len(atoms) THEN atoms[pos + 1] ELSE Undefined

StorageHas(atoms, id) == \E i \in 1..Len(atoms) : Compare(atoms[i].id, id) = 0

\* StorageRank placing every new identifier in front of the last atom.
StorageRank_BeforeLast(atoms, id) ==
  IF Len(atoms) < 2 THEN Len(atoms) ELSE Len(atoms) - 1

\* The number of stored atoms that sort before id.
StorageRank(atoms, id) == Cardinality({i \in 1..Len(atoms) : Compare(atoms[i].id, id) < 0})

\* StorageAdd writing the atom at the end of the array, whatever its identifier.
StorageAdd_AtEnd(atoms, id, value) ==
  IF ~IsIdent(id) THEN StorageResult(atoms, TRUE)
  ELSE IF StorageHas(atoms, id) THEN StorageResult(atoms, FALSE)
  ELSE StorageResult(atoms \o <<Atom(id, value)>>, FALSE)

\* StorageAdd without the lookup of an atom that is present.
StorageAdd_NoLookup(atoms, id, value) ==
  IF ~IsIdent(id) THEN StorageResult(atoms, TRUE)
  ELSE LET k == StorageRank(atoms, id)
       IN StorageResult(SubSeq(atoms, 1, k) \o <<Atom(id, value)>>
                          \o SubSeq(atoms, k + 1, Len(atoms)), FALSE)

\* add(id, value): ordered insertion; no-op when id is present.
StorageAdd(atoms, id, value) ==
  IF ~IsIdent(id) THEN StorageResult(atoms, TRUE)
  ELSE IF StorageHas(atoms, id) THEN StorageResult(atoms, FALSE)
  ELSE LET k == StorageRank(atoms, id)
       IN StorageResult(SubSeq(atoms, 1, k) \o <<Atom(id, value)>>
                          \o SubSeq(atoms, k + 1, Len(atoms)), FALSE)

\* remove(id): deletes the atom with that id; no-op when absent.
StorageRemove(atoms, id) ==
  IF ~IsIdent(id) THEN StorageResult(atoms, TRUE)
  ELSE StorageResult(SelectSeq(atoms, LAMBDA a : Compare(a.id, id) # 0), FALSE)

\* map(func) / forEach(func): the atoms func is called with, in order: every
\* atom of the storage, ascending.
StorageMap(atoms) == [i \in 1..Len(atoms) |-> atoms[i]]

----------------------------------------------------------------------------
(* Identifier generator: specification section 4.2 *)

\* The largest offset from the biased end of a gap.
Boundary == 2

\* new LSEQIdentGenerator(replica): the replica's name and its logical counter.
\* The per-depth direction memory only steers the bias of later choices, which
\* "alternates or randomizes"; GetIdent below allows either direction at every
\* call, which covers every such policy, so the memory itself carries no
\* information the model reads and is left out.
NewLSEQIdentGenerator(replica) == [replica |-> replica, time |-> 0]

\* The position of id at depth d; a missing segment counts as `missing`.
DigitAt(id, d, missing) == IF d <= Len(id.path) THEN id.path[d].digit ELSE missing

\* The first depth at which the gap between low and high is usable (> 1).
RECURSIVE GapDepth(_, _, _)
GapDepth(low, high, d) ==
  IF DigitAt(high, d, Pow2(d)) - DigitAt(low, d, 0) > 1 THEN d
  ELSE GapDepth(low, high, d + 1)

\* allocate(low, high): every identifier a call may return, each with the
\* generator's state afterwards.  The new identifier is low's path down to the
\* depth above the gap (a missing segment of low is position 0), then a
\* position strictly inside the gap, at most Boundary away from one of its
\* ends, with the disambiguator (replica id, incremented counter).
GetIdent(gen, low, high) ==
  LET d == GapDepth(low, high, 1)
      lo == DigitAt(low, d, 0)
      hi == DigitAt(high, d, Pow2(d))
      n == IF hi - lo - 1 < Boundary THEN hi - lo - 1 ELSE Boundary
      t == gen.time + 1
      prefix == [i \in 1..(d - 1) |->
                   IF i <= Len(low.path) THEN low.path[i] ELSE Segment(0, "", 0)]
      digit(dir, delta) == IF dir = "low" THEN lo + delta ELSE hi - delta
  IN { [id |-> IdentOf(prefix \o <<Segment(digit(dir, delta), gen.replica, t)>>),
        gen |-> [gen EXCEPT !.time = t]] : dir \in {"low", "high"}, delta \in 1..n }

----------------------------------------------------------------------------
(* Operations: src/src/Op.ts *)

OpKindInsert == 1
OpKindRemove == 2

\* new InsertOp(replica, time, id, value)
NewInsertOp(replica, time, id, value) ==
  [tag |-> "op", kind |-> OpKindInsert, replica |-> replica, time |-> time,
   id |-> id, value |-> value]

\* new RemoveOp(replica, time, id)
NewRemoveOp(replica, time, id) ==
  [tag |-> "op", kind |-> OpKindRemove, replica |-> replica, time |-> time, id |-> id]

----------------------------------------------------------------------------
(* The facade: src/src/Sequence.ts.  A Sequence object is a record of its   *)
(* fields; a method is an operator from the object to its outcome(s).       *)

\* The object of replica r, as the variables hold it.
Self(r) == [replica |-> r, maxDepth |-> maxDepth[r], storage |-> storage[r],
            idGenerator |-> idGenerator[r]]

\* The constructor creating the generator without the replica's id.
NewSequence_Unnamed(replica) ==
  LET gen == NewLSEQIdentGenerator("")
      s1 == StorageAdd(<< >>, getBookends[1], Null).atoms
      s2 == StorageAdd(s1, getBookends[2], Null).atoms
  IN [replica |-> replica, maxDepth |-> Undefined, storage |-> s2, idGenerator |-> gen]

\* constructor(replica): maxDepth is declared and never assigned.
NewSequence(replica) ==
  LET gen == NewLSEQIdentGenerator(replica)
      first == getBookends[1]
      lst == getBookends[2]
      s1 == StorageAdd(<< >>, first, Null).atoms
      s2 == StorageAdd(s1, lst, Null).atoms
  IN [replica |-> replica, maxDepth |-> Undefined, storage |-> s2, idGenerator |-> gen]

size(self) == StorageSize(self.storage) - 2

depth(self) == self.maxDepth

\* apply adding the atom of an insert behind the last atom of the storage.
apply_AtEnd(atoms, op) ==
  CASE op.kind = OpKindInsert -> StorageAdd_AtEnd(atoms, op.id, op.value)
    [] op.kind = OpKindRemove -> StorageRemove(atoms, op.id)
    [] OTHER -> StorageResult(atoms, TRUE)

\* apply rejecting the remove of an identifier the storage does not hold.
apply_Strict(atoms, op) ==
  CASE op.kind = OpKindInsert -> StorageAdd(atoms, op.id, op.value)
    [] op.kind = OpKindRemove ->
         IF IsIdent(op.id) /\ ~StorageHas(atoms, op.id)
         THEN StorageResult(atoms, TRUE)
         ELSE StorageRemove(atoms, op.id)
    [] OTHER -> StorageResult(atoms, TRUE)

\* apply skipping an operation of another kind without an error.
apply_SkipUnknown(atoms, op) ==
  CASE op.kind = OpKindInsert -> StorageAdd(atoms, op.id, op.value)
    [] op.kind = OpKindRemove -> StorageRemove(atoms, op.id)
    [] OTHER -> StorageResult(atoms, FALSE)

\* apply(op) on the storage: the storage afterwards and whether it threw.
apply(atoms, op) ==
  CASE op.kind = OpKindInsert -> StorageAdd(atoms, op.id, op.value)
    [] op.kind = OpKindRemove -> StorageRemove(atoms, op.id)
    [] OTHER -> StorageResult(atoms, TRUE)

\* The outcome of a call: the object afterwards, the value returned
\* (undefined when the call threw), and, to observe them, the identifier the
\* call allocated and the operation it built (undefined when it built none).
Outcome(self, ret, threw, id, op) ==
  [self |-> self, ret |-> ret, threw |-> threw, id |-> id, op |-> op]

\* insert reading its neighbours one position too far to the right.
insert_NextNeighbours(self, value, pos) ==
  LET before == StorageGet(self.storage, pos + 1)
      after == StorageGet(self.storage, pos + 2)
  IN IF before = Undefined \/ after = Undefined
     THEN {Outcome(self, Undefined, TRUE, Undefined, Undefined)}
     ELSE { LET op == NewInsertOp(g.id, value, Undefined, Undefined)
                res == apply(self.storage, op)
                s1 == [self EXCEPT !.idGenerator = g.gen]
            IN IF res.threw
               THEN Outcome(s1, Undefined, TRUE, g.id, op)
               ELSE Outcome([s1 EXCEPT !.storage = res.atoms], op, FALSE, g.id, op)
            : g \in GetIdent(self.idGenerator, before.id, after.id) }

\* insert answering a missing neighbour as remove does: it returns null.
insert_NullOnMissing(self, value, pos) ==
  LET before == StorageGet(self.storage, pos)
      after == StorageGet(self.storage, pos + 1)
  IN IF before = Undefined \/ after = Undefined
     THEN {Outcome(self, Null, FALSE, Undefined, Undefined)}
     ELSE { LET op == NewInsertOp(g.id, value, Undefined, Undefined)
                res == apply(self.storage, op)
                s1 == [self EXCEPT !.idGenerator = g.gen]
            IN IF res.threw
               THEN Outcome(s1, Undefined, TRUE, g.id, op)
               ELSE Outcome([s1 EXCEPT !.storage = res.atoms], op, FALSE, g.id, op)
            : g \in GetIdent(self.idGenerator, before.id, after.id) }

\* insert(value, pos).  `before.id` and `after.id` throw a TypeError when
\* storage.get found no atom.  `new InsertOp(id, value)` binds the constructor's
\* parameters (replica, time, id, value) in order: replica := id,
\* time := value, and id and value stay undefined.
insert(self, value, pos) ==
  LET before == StorageGet(self.storage, pos)
      after == StorageGet(self.storage, pos + 1)
  IN IF before = Undefined \/ after = Undefined
     THEN {Outcome(self, Undefined, TRUE, Undefined, Undefined)}
     ELSE { LET id == g.id
                op == NewInsertOp(id, value, Undefined, Undefined)
                res == apply(self.storage, op)
                s1 == [self EXCEPT !.idGenerator = g.gen]
            IN IF res.threw
               THEN Outcome(s1, Undefined, TRUE, id, op)
               ELSE Outcome([s1 EXCEPT !.storage = res.atoms,
                                       !.maxDepth = IF JsLess(@, Num(getDepth(id)))
                                                    THEN Num(getDepth(id)) ELSE @],
                            op, FALSE, id, op)
            : g \in GetIdent(self.idGenerator, before.id, after.id) }

\* append(value)
append(self, value) == insert(self, value, size(self))

\* remove passing the atom's identifier as the operation's id.
remove_IdAsId(self, pos) ==
  LET atom == StorageGet(self.storage, pos)
  IN IF atom # Undefined
     THEN LET op == NewRemoveOp(Str(self.replica), Undefined, atom.id)
              res == apply(self.storage, op)
          IN IF res.threw
             THEN Outcome(self, Undefined, TRUE, Undefined, op)
             ELSE Outcome([self EXCEPT !.storage = res.atoms], op, FALSE, Undefined, op)
     ELSE Outcome(self, Null, FALSE, Undefined, Undefined)

\* remove(pos).  `new RemoveOp(atom.id)` binds replica := atom.id and leaves
\* time and id undefined.
remove(self, pos) ==
  LET atom == StorageGet(self.storage, pos)
  IN IF atom # Undefined
     THEN LET op == NewRemoveOp(atom.id, Undefined, Undefined)
              res == apply(self.storage, op)
          IN IF res.threw
             THEN Outcome(self, Undefined, TRUE, Undefined, op)
             ELSE Outcome([self EXCEPT !.storage = res.atoms], op, FALSE, Undefined, op)
     ELSE Outcome(self, Null, FALSE, Undefined, Undefined)

\* get(pos)
get(self, pos) ==
  LET atom == StorageGet(self.storage, pos + 1)
  IN IF atom # Undefined THEN atom.value ELSE Undefined

\* forEach(func): the values func is called with, in order.
forEach(self) ==
  LET atoms == StorageMap(self.storage)
  IN [i \in 1..Len(atoms) |-> atoms[i].value]

\* map(func): the values func is called with, in order; the array returned
\* holds func's results in that order.
map(self) ==
  LET atoms == StorageMap(self.storage)
  IN [i \in 1..Len(atoms) |-> atoms[i].value]

\* toArray()
toArray(self) ==
  LET atoms == StorageMap(self.storage)
  IN [i \in 1..Len(atoms) |-> atoms[i].value]

\* Ident.toString(): the segments "<position>,<replica>.<counter>", joined
\* by "/".
RECURSIVE IdentToString(_)
IdentToString(id) ==
  IF id.path = << >> THEN ""
  ELSE LET s == Head(id.path)
           seg == ToString(s.digit) \o "," \o s.replica \o "." \o ToString(s.time)
       IN IF Tail(id.path) = << >> THEN seg
          ELSE seg \o "/" \o IdentToString(IdentOf(Tail(id.path)))

\* toJSON()
toJSON(self) ==
  LET atoms == StorageMap(self.storage)
  IN [r |-> self.replica,
      d |-> [i \in 1..Len(atoms) |-> <<IdentToString(atoms[i].id), atoms[i].value>>]]

----------------------------------------------------------------------------
(* The textual encoding of operations: src/src/Op.ts.  A JavaScript string  *)
(* is a string; a call answers with the value it returned or with threw.    *)

CodecResult(ret, threw) == [ret |-> ret, threw |-> threw]

\* Number's value of a text that has not the form of a number, or of undefined.
NaN == [tag |-> "NaN"]

\* The i-th character of str.
CharAt(str, i) == SubSeq(str, i, i)

\* str.substr(from): the characters from zero-based index `from` on.
Substr(str, from) == SubSeq(str, from + 1, Len(str))

\* str.split(sep) for a one-character separator: the fields between the
\* occurrences of sep; a text without sep is one field.
RECURSIVE Split(_, _)
Split(str, sep) ==
  IF \A i \in 1..Len(str) : CharAt(str, i) # sep THEN <<str>>
  ELSE LET k == CHOOSE i \in 1..Len(str) :
                  /\ CharAt(str, i) = sep
                  /\ \A j \in 1..(i - 1) : CharAt(str, j) # sep
       IN <<SubSeq(str, 1, k - 1)>> \o Split(Substr(str, k), sep)

\* let [a, b, ...] = fields: the i-th variable of the pattern, undefined when
\* there are fewer fields.
Field(fields, i) == IF i <= Len(fields) THEN Str(fields[i]) ELSE Undefined

Digits == <<"0", "1", "2", "3", "4", "5", "6", "7", "8", "9">>

IsDecimal(str) ==
  /\ Len(str) > 0
  /\ \A i \in 1..Len(str) : \E d \in 1..Len(Digits) : CharAt(str, i) = Digits[d]

RECURSIVE DecimalValue(_)
DecimalValue(str) ==
  IF Len(str) = 0 THEN 0
  ELSE LET d == CHOOSE k \in 1..Len(Digits) : Digits[k] = CharAt(str, Len(str))
       IN Len(Digits) * DecimalValue(SubSeq(str, 1, Len(str) - 1)) + (d - 1)

\* Number(v), for undefined and for the texts that occur here: the empty text
\* is 0, a text of decimal digits is its value, any other text is NaN.
JsNumber(v) ==
  IF v = Undefined THEN NaN
  ELSE IF v.s = "" THEN Num(0)
  ELSE IF IsDecimal(v.s) THEN Num(DecimalValue(v.s))
  ELSE NaN

\* `${v}` and v.toString(), for a v that is neither undefined nor null.
JsToString(v) ==
  CASE v.tag = "string" -> v.s
    [] v.tag = "number" -> ToString(v.n)
    [] v.tag = "ident" -> IdentToString(v)
    [] v.tag = "NaN" -> "NaN"
    [] v.tag = "undefined" -> "undefined"
    [] v.tag = "null" -> "null"

\* A segment of an identifier's text: "<position>,<replica>.<counter>".
SegmentWellFormed(str) ==
  LET parts == Split(str, ",")
  IN /\ Len(parts) = 2
     /\ IsDecimal(parts[1])
     /\ Len(Split(parts[2], ".")) = 2
     /\ IsDecimal(Split(parts[2], ".")[2])

SegmentParse(str) ==
  LET parts == Split(str, ",")
      dis == Split(parts[2], ".")
  IN Segment(DecimalValue(parts[1]), dis[1], DecimalValue(dis[2]))

\* Ident.parse(str): the identifier whose text str is; a text that is not
\* the text of an identifier is a decode error.
IdentParse(str) ==
  LET segs == Split(str, "/")
  IN IF \A i \in 1..Len(segs) : SegmentWellFormed(segs[i])
     THEN CodecResult(IdentOf([i \in 1..Len(segs) |-> SegmentParse(segs[i])]), FALSE)
     ELSE CodecResult(Undefined, TRUE)

\* InsertOp.toString(); `this.id.toString()` and `this.value.toString()`
\* throw a TypeError on undefined and on null.
InsertOpToString(op) ==
  IF op.id \in {Undefined, Null} \/ op.value \in {Undefined, Null}
  THEN CodecResult(Undefined, TRUE)
  ELSE CodecResult("+" \o JsToString(op.replica) \o ":" \o JsToString(op.time) \o ":"
                       \o JsToString(op.id) \o ":" \o JsToString(op.value), FALSE)

\* RemoveOp.toString()
RemoveOpToString(op) ==
  IF op.id \in {Undefined, Null}
  THEN CodecResult(Undefined, TRUE)
  ELSE CodecResult("-" \o JsToString(op.replica) \o ":" \o JsToString(op.time) \o ":"
                       \o JsToString(op.id), FALSE)

\* op.toString(), by the class of op.
OpToString(op) ==
  IF op.kind = OpKindInsert THEN InsertOpToString(op) ELSE RemoveOpToString(op)

\* InsertOp.parse(str): the identifier is parsed from str, the whole text of
\* the operation, not from the field `id`.
InsertOpParse(str) ==
  LET fields == Split(Substr(str, 1), ":")
      replica == Field(fields, 1)
      time == Field(fields, 2)
      id == Field(fields, 3)
      value == Field(fields, 4)
      ident == IdentParse(str)
  IN IF ident.threw THEN CodecResult(Undefined, TRUE)
     ELSE CodecResult(NewInsertOp(replica, JsNumber(time), ident.ret, value), FALSE)

\* RemoveOp.parse(str)
RemoveOpParse(str) ==
  LET fields == Split(Substr(str, 1), ":")
      replica == Field(fields, 1)
      time == Field(fields, 2)
      id == Field(fields, 3)
      ident == IdentParse(str)
  IN IF ident.threw THEN CodecResult(Undefined, TRUE)
     ELSE CodecResult(NewRemoveOp(replica, JsNumber(time), ident.ret), FALSE)

\* Op.parse(str): the switch has no default, so a text with another first
\* character (or none) falls through and the function returns undefined.
OpParse(str) ==
  LET kind == IF Len(str) > 0 THEN CharAt(str, 1) ELSE ""
  IN CASE kind = "+" -> InsertOpParse(str)
       [] kind = "-" -> RemoveOpParse(str)
       [] OTHER -> CodecResult(Undefined, FALSE)

----------------------------------------------------------------------------
(* The environment: the callers of the public API *)

\* The values a caller inserts.
Values == {Str("x"), Str("y")}

\* Operations of a third replica "x", as a conforming peer sends them.  X1 is
\* the left neighbour of MAX at depth 1, X2 extends X1 with the first position
\* of depth 2, and X3 lies in the middle of depth 1: between these and the
\* sentinels the generator allocates at depths 1, 2 and 3.
X1 == IdentOf(<<Segment(6, "x", 1)>>)
X2 == IdentOf(<<Segment(6, "x", 1), Segment(1, "x", 2)>>)
X3 == IdentOf(<<Segment(3, "x", 3)>>)

InsertX1 == NewInsertOp(Str("x"), Num(1), X1, Str("p"))
InsertX2 == NewInsertOp(Str("x"), Num(2), X2, Str("q"))
InsertX3 == NewInsertOp(Str("x"), Num(3), X3, Str("r"))
RemoveX1 == NewRemoveOp(Str("x"), Num(4), X1)
RemoveX3 == NewRemoveOp(Str("x"), Num(5), X3)

\* An operation of a kind this version does not know.
UnknownOp == [tag |-> "op", kind |-> OpKindRemove + 1, replica |-> Str("x"),
              time |-> Num(6), id |-> X2]

\* The operations delivered while the replicas are edited locally.
RemoteOps == {InsertX1, InsertX2, RemoveX1, UnknownOp}

\* The operations delivered when the replicas only merge.
MergeOps == {InsertX1, InsertX2, InsertX3, RemoveX1, RemoveX3, UnknownOp}

\* The positions a caller passes: every valid one and some on either side.
Positions(r) == -1 .. (size(Self(r)) + 1)

\* The pairs of identifiers that atoms holds in this order.
InOrderPairs(atoms) ==
  {<<atoms[p[1]].id, atoms[p[2]].id>> :
     p \in {q \in (1..Len(atoms)) \X (1..Len(atoms)) : q[1] < q[2]}}

\* The record of a call, kept in `last`.
Call(name, r, value, pos, out) ==
  [call |-> name, replica |-> r, value |-> value, pos |-> pos,
   before |-> Self(r), out |-> out,
   again |-> /\ name = "apply"
             /\ last.call = "apply"
             /\ last.replica = r
             /\ last.out.op = out.op]

\* Install with one storage shared by the objects of all replicas.
Install_Shared(r, self) ==
  /\ self.idGenerator.time <= MaxTime
  /\ storage' = [q \in Replicas |-> self.storage]
  /\ idGenerator' = [idGenerator EXCEPT ![r] = self.idGenerator]
  /\ maxDepth' = [maxDepth EXCEPT ![r] = self.maxDepth]

\* The object of replica r becomes self.
Install(r, self) ==
  /\ self.idGenerator.time <= MaxTime
  /\ storage' = [storage EXCEPT ![r] = self.storage]
  /\ idGenerator' = [idGenerator EXCEPT ![r] = self.idGenerator]
  /\ maxDepth' = [maxDepth EXCEPT ![r] = self.maxDepth]

\* What apply(op) makes of the object of replica r.
Applied(r, op) ==
  LET res == apply(storage[r], op)
  IN Outcome([Self(r) EXCEPT !.storage = res.atoms], Undefined, res.threw, Undefined, op)

Init ==
  /\ storage = [r \in Replicas |-> NewSequence(r).storage]
  /\ idGenerator = [r \in Replicas |-> NewSequence(r).idGenerator]
  /\ maxDepth = [r \in Replicas |-> NewSequence(r).maxDepth]
  /\ last = [call |-> "new", replica |-> "", value |-> Undefined, pos |-> 0,
             before |-> Undefined, out |-> Undefined, again |-> FALSE]
  /\ delivered = [r \in Replicas |-> << >>]
  /\ clean = [r \in Replicas |-> TRUE]
  /\ issued = {}
  /\ reissued = FALSE
  /\ ordered = UNION {InOrderPairs(NewSequence(r).storage) : r \in Replicas}
  /\ fate = [r \in Replicas |-> [x \in {op.id : op \in RemoteOps} |-> "none"]]

\* A caller calls insert(value, pos) on replica r.
CallInsert(r) ==
  \E value \in Values, pos \in Positions(r) :
    \E out \in insert(Self(r), value, pos) :
      /\ Install(r, out.self)
      /\ last' = Call("insert", r, value, pos, out)
      /\ UNCHANGED <<delivered, clean, issued, reissued, ordered, fate>>

\* A caller calls append(value) on replica r.
CallAppend(r) ==
  \E value \in Values :
    \E out \in append(Self(r), value) :
      /\ Install(r, out.self)
      /\ last' = Call("append", r, value, size(Self(r)), out)
      /\ UNCHANGED <<delivered, clean, issued, reissued, ordered, fate>>

\* A caller calls remove(pos) on replica r.
CallRemove(r) ==
  \E pos \in Positions(r) :
    LET out == remove(Self(r), pos)
    IN /\ Install(r, out.self)
       /\ last' = Call("remove", r, Undefined, pos, out)
       /\ UNCHANGED <<delivered, clean, issued, reissued, ordered, fate>>

\* A caller calls get(pos) on replica r.
CallGet(r) ==
  \E pos \in Positions(r) :
    LET out == Outcome(Self(r), get(Self(r), pos), FALSE, Undefined, Undefined)
    IN /\ Install(r, out.self)
       /\ last' = Call("get", r, Undefined, pos, out)
       /\ UNCHANGED <<delivered, clean, issued, reissued, ordered, fate>>

\* A caller calls apply(op) on replica r with an operation of the peer.
CallApply(r) ==
  \E op \in RemoteOps :
    /\ Install(r, Applied(r, op).self)
    /\ last' = Call("apply", r, Undefined, 0, Applied(r, op))
    /\ UNCHANGED <<delivered, clean, issued, reissued, ordered, fate>>

Next ==
  \E r \in Replicas :
    CallInsert(r) \/ CallAppend(r) \/ CallRemove(r) \/ CallGet(r) \/ CallApply(r)

Spec == Init /\ [][Next]_vars

----------------------------------------------------------------------------
(* Merging: the replicas only receive operations.  delivered[r] is the log  *)
(* of the inserts and removes applied on r, kept while clean[r] holds: no   *)
(* operation applied twice and no remove applied before the insert of its   *)
(* identifier.                                                              *)

Range(log) == {log[i] : i \in 1..Len(log)}

InOrder(log, op) ==
  /\ op \notin Range(log)
  /\ op.kind = OpKindRemove =>
       \E o \in Range(log) : o.kind = OpKindInsert /\ o.id = op.id

Deliver(r) ==
  \E op \in MergeOps :
    LET known == op.kind \in {OpKindInsert, OpKindRemove}
        ok == clean[r] /\ (known => InOrder(delivered[r], op))
    IN /\ Install(r, Applied(r, op).self)
       /\ clean' = [clean EXCEPT ![r] = ok]
       /\ delivered' = [delivered EXCEPT ![r] =
                          IF ~ok THEN << >>
                          ELSE IF known THEN @ \o <<op>> ELSE @]
       /\ UNCHANGED <<last, issued, reissued, ordered, fate>>

NextMerge == \E r \in Replicas : Deliver(r)

SpecMerge == Init /\ [][NextMerge]_vars

----------------------------------------------------------------------------
(* Allocation: the replicas insert locally and receive operations; `issued` *)
(* is the history of the identifiers their inserts allocated.               *)

Allocate(r) ==
  \E pos \in Positions(r) :
    \E out \in insert(Self(r), Str("x"), pos) :
      /\ out.id # Undefined
      /\ Cardinality(issued) < MaxIssued
      /\ Install(r, out.self)
      /\ issued' = issued \cup {out.id}
      /\ reissued' = (reissued \/ out.id \in issued)
      /\ UNCHANGED <<last, delivered, clean, ordered, fate>>

Receive(r) ==
  \E op \in {InsertX1, InsertX2} :
    /\ Install(r, Applied(r, op).self)
    /\ UNCHANGED <<last, delivered, clean, issued, reissued, ordered, fate>>

NextUnique == \E r \in Replicas : Allocate(r) \/ Receive(r)

SpecUnique == Init /\ [][NextUnique]_vars

----------------------------------------------------------------------------
(* History: the replicas are edited locally and receive operations, out of  *)
(* order and more than once.  `ordered` is the history of the orders in     *)
(* which the storages have held identifiers; fate[r][x] follows the         *)
(* operations on identifier x that replica r has applied:                   *)
(*   "none"         none yet                                                *)
(*   "inserted"     an insert, x not removed before                         *)
(*   "removed"      a remove that found x                                   *)
(*   "early"        a remove that did not find x, no insert before it       *)
(*   "resurrected"  an insert after an early remove                         *)
(*   "failed"       a remove that did not find x threw or changed the       *)
(*                  storage                                                 *)

\* fate[r] after apply(op) on replica r made res of the storage.
FateAfter(r, op, res) ==
  LET f == fate[r]
      found == StorageHas(storage[r], op.id)
  IN IF op.kind \notin {OpKindInsert, OpKindRemove} THEN f
     ELSE IF op.id \notin DOMAIN f THEN f
     ELSE IF op.kind = OpKindInsert
          THEN IF res.threw THEN f
               ELSE [f EXCEPT ![op.id] =
                       IF @ \in {"early", "resurrected"} THEN "resurrected" ELSE "inserted"]
          ELSE IF found
               THEN IF res.threw THEN f ELSE [f EXCEPT ![op.id] = "removed"]
               ELSE [f EXCEPT ![op.id] =
                       IF res.threw \/ res.atoms # storage[r] THEN "failed"
                       ELSE IF @ = "none" THEN "early" ELSE @]

\* The histories after a call on replica r: op is the operation the call
\* handed to apply (undefined when it reached none), res what apply made of it.
Recorded(r, op, res) ==
  /\ ordered' = ordered \cup InOrderPairs(res.atoms)
  /\ fate' = [fate EXCEPT ![r] = IF op = Undefined THEN @ ELSE FateAfter(r, op, res)]

\* insert(value, pos) on replica r.
LocalInsert(r) ==
  \E pos \in Positions(r) :
    \E out \in insert(Self(r), Str("x"), pos) :
      /\ Install(r, out.self)
      /\ Recorded(r, out.op, StorageResult(out.self.storage, out.threw))
      /\ UNCHANGED <<last, delivered, clean, issued, reissued>>

\* remove(pos) on replica r.
LocalRemove(r) ==
  \E pos \in Positions(r) :
    LET out == remove(Self(r), pos)
    IN /\ Install(r, out.self)
       /\ Recorded(r, out.op, StorageResult(out.self.storage, out.threw))
       /\ UNCHANGED <<last, delivered, clean, issued, reissued>>

\* apply(op) on replica r with an operation of the peer.
RemoteApply(r) ==
  \E op \in RemoteOps :
    /\ Install(r, Applied(r, op).self)
    /\ Recorded(r, op, apply(storage[r], op))
    /\ UNCHANGED <<last, delivered, clean, issued, reissued>>

NextHistory == \E r \in Replicas : LocalInsert(r) \/ LocalRemove(r) \/ RemoteApply(r)

SpecHistory == Init /\ [][NextHistory]_vars

----------------------------------------------------------------------------
(* Transmission: operations are encoded for the wire with toString() and    *)
(* decoded with Op.parse(); a receiver also decodes texts no replica sent.  *)

\* The operations a conforming replica sends.
WireOps ==
  LET ids == {X1, X2, X3}
      names == {Str("a"), Str("b"), Str("x")}
      times == {Num(t) : t \in 0..MaxWireTime}
  IN {NewInsertOp(r, t, i, v) : r \in names, t \in times, i \in ids,
                                v \in {Str("p"), Str("q")}}
       \cup {NewRemoveOp(r, t, i) : r \in names, t \in times, i \in ids}

\* Texts that are the encoding of no operation: without a sigil, with an
\* unknown sigil, and with a sigil and missing or malformed fields.
ForeignTexts ==
  {"", "a:1:6,x.1:p", "*a:1:6,x.1:p", "=a:1:6,x.1", "6,x.1",
   "+", "-", "+a", "-a:1", "+a:z:6,x.1:p", "-a:1:6;x.1", "+a:1::p", "-a:1:6,x"}

\* The record of an encoding or decoding call, kept in `last`: the text
\* passed or returned, and the operation it was made from (undefined for a
\* text no replica sent).
CodecCall(name, op, text, res) ==
  [call |-> name, replica |-> "", value |-> Str(text), pos |-> 0, before |-> op,
   out |-> Outcome(Undefined, res.ret, res.threw, Undefined, Undefined),
   again |-> FALSE]

\* A replica encodes an operation: op.toString().
CallToString ==
  \E op \in WireOps :
    LET res == OpToString(op)
    IN /\ ~res.threw
       /\ last' = CodecCall("toString", op, res.ret, res)
       /\ UNCHANGED <<storage, idGenerator, maxDepth, delivered, clean, issued, reissued, ordered, fate>>

\* A replica decodes the text an operation was encoded to: Op.parse(text).
CallParse ==
  /\ last.call = "toString"
  /\ last' = CodecCall("parse", last.before, last.value.s, OpParse(last.value.s))
  /\ UNCHANGED <<storage, idGenerator, maxDepth, delivered, clean, issued, reissued, ordered, fate>>

\* A replica decodes a text that no replica sent.
CallParseForeign ==
  \E text \in ForeignTexts :
    /\ last' = CodecCall("parse", Undefined, text, OpParse(text))
    /\ UNCHANGED <<storage, idGenerator, maxDepth, delivered, clean, issued, reissued, ordered, fate>>

NextCodec == CallToString \/ CallParse \/ CallParseForeign

SpecCodec == Init /\ [][NextCodec]_vars

----------------------------------------------------------------------------
(* What the claims speak of *)

MIN == getBookends[1]
MAX == getBookends[2]

\* The values of the atoms that are no sentinel, in storage order.
UserValues(atoms) ==
  LET users == SelectSeq(atoms, LAMBDA a : a.id # MIN /\ a.id # MAX)
  IN [i \in 1..Len(users) |-> users[i].value]

\* seq with v placed at zero-based index pos / with index pos deleted.
InsertAt(seq, pos, v) == SubSeq(seq, 1, pos) \o <<v>> \o SubSeq(seq, pos + 1, Len(seq))
RemoveAt(seq, pos) == SubSeq(seq, 1, pos) \o SubSeq(seq, pos + 2, Len(seq))

\* The last call was insert or append with a position in [0, size()].
InsertInRange ==
  /\ last.call \in {"insert", "append"}
  /\ 0 <= last.pos /\ last.pos <= size(last.before)

\* The last call was insert with a position outside [0, size()].
InsertOutOfRange ==
  /\ last.call = "insert"
  /\ (last.pos < 0 \/ last.pos > size(last.before))

\* The last call was remove with a position in [0, size()).
RemoveInRange ==
  /\ last.call = "remove"
  /\ 0 <= last.pos /\ last.pos < size(last.before)

----------------------------------------------------------------------------
(* C1. Convergence: two replicas that have applied the same set of inserts  *)
(* and removes (distinct identifiers, each operation once, every remove     *)
(* after the insert of its identifier), in whatever orders, hold identical  *)
(* storage: the same identifiers with the same values in the same order.    *)
C1_Convergence ==
  \A r1, r2 \in Replicas :
    (clean[r1] /\ clean[r2] /\ Range(delivered[r1]) = Range(delivered[r2]))
      => storage[r1] = storage[r2]

\* Both replicas have applied the three inserts and a remove, in different orders.
C1_Witness ==
  /\ clean["a"] /\ clean["b"]
  /\ Range(delivered["a"]) = {InsertX1, InsertX2, InsertX3, RemoveX3}
  /\ Range(delivered["b"]) = Range(delivered["a"])
  /\ delivered["a"] # delivered["b"]
  /\ Head(delivered["a"]) = InsertX1
  /\ Head(delivered["b"]) = InsertX2

(* C2. Idempotence of apply: an operation applied a second time right after *)
(* the first leaves the storage as the first application left it; an insert *)
(* of an identifier that is present and a remove of one that is absent      *)
(* change nothing.                                                          *)
C2_Idempotent ==
  last.call = "apply" =>
    LET op == last.out.op
        before == last.before.storage
        now == storage[last.replica]
    IN /\ last.again => now = before
       /\ (op.kind = OpKindInsert /\ StorageHas(before, op.id)) => now = before
       /\ (op.kind = OpKindRemove /\ ~StorageHas(before, op.id)) => now = before
       /\ \A o \in MergeOps :
            apply(apply(now, o).atoms, o).atoms = apply(now, o).atoms

\* The insert of X1 was applied a second time in a row, X1 being present.
C2_Witness ==
  /\ last.call = "apply"
  /\ last.again
  /\ last.out.op = InsertX1
  /\ StorageHas(last.before.storage, X1)
  /\ StorageHas(storage[last.replica], X2)

(* C3. Strictly between: the identifier an insert with 0 <= pos <= size()   *)
(* allocates is greater than the identifier of the atom at storage position *)
(* pos and less than the identifier of the atom at pos + 1.                 *)
C3_StrictlyBetween ==
  InsertInRange =>
    /\ IsIdent(last.out.id)
    /\ Compare(StorageGet(last.before.storage, last.pos).id, last.out.id) = -1
    /\ Compare(last.out.id, StorageGet(last.before.storage, last.pos + 1).id) = -1

\* An insert between X1 and its extension X2 allocated at depth 3.
C3_Witness ==
  /\ InsertInRange
  /\ last.call = "insert"
  /\ StorageGet(last.before.storage, last.pos).id = X1
  /\ StorageGet(last.before.storage, last.pos + 1).id = X2
  /\ getDepth(last.out.id) = 3

(* C4. Uniqueness: no insert, on any replica, allocates an identifier that  *)
(* an earlier insert, on the same or another replica, allocated.            *)
C4_Unique == reissued = FALSE

\* Three allocations, two of them with the same positions on different
\* replicas and two of them by the same replica.
C4_Witness ==
  /\ Cardinality(issued) = 3
  /\ \E i, j \in issued :
       /\ i # j
       /\ Len(i.path) = Len(j.path)
       /\ \A k \in 1..Len(i.path) : i.path[k].digit = j.path[k].digit
       /\ i.path[Len(i.path)].replica # j.path[Len(j.path)].replica
  /\ \E i, j \in issued :
       /\ i # j
       /\ i.path[Len(i.path)].replica = j.path[Len(j.path)].replica

(* C5. Sentinels: every replica's storage holds MIN first and MAX last,     *)
(* both with a null value, so that size() is the number of the other atoms  *)
(* and is not negative; no remove(pos) removes a sentinel.                  *)
C5_Sentinels ==
  \A r \in Replicas :
    LET atoms == storage[r]
    IN /\ Len(atoms) >= 2
       /\ atoms[1] = Atom(MIN, Null)
       /\ atoms[Len(atoms)] = Atom(MAX, Null)
       /\ size(Self(r)) >= 0
       /\ size(Self(r)) = Len(UserValues(atoms))

\* remove(0) has been called on a replica that holds two values and has
\* inserted before: the atom it read is the MIN sentinel.
C5_Witness ==
  /\ last.call = "remove"
  /\ last.pos = 0
  /\ last.out.op # Undefined
  /\ last.out.op.replica = MIN
  /\ idGenerator[last.replica].time > 0
  /\ size(Self(last.replica)) = 2

(* C6. Positional insert: after insert(v, pos) with 0 <= pos <= size() the  *)
(* user values are the previous ones with v placed at index pos, get(pos)   *)
(* returns v and size() has grown by 1; append(v) makes v the last value.   *)
C6_PositionalInsert ==
  InsertInRange =>
    LET self == Self(last.replica)
    IN /\ last.out.threw = FALSE
       /\ UserValues(self.storage)
            = InsertAt(UserValues(last.before.storage), last.pos, last.value)
       /\ get(self, last.pos) = last.value
       /\ size(self) = size(last.before) + 1
       /\ last.call = "append" => get(self, size(self) - 1) = last.value

(* C7. Positional remove: remove(pos) with 0 <= pos < size() removes the    *)
(* value get(pos) returned before the call, size() shrinks by 1, and the    *)
(* returned operation does the same on a replica with the same content.     *)
C7_PositionalRemove ==
  RemoveInRange =>
    LET self == Self(last.replica)
    IN /\ last.out.threw = FALSE
       /\ UserValues(self.storage)
            = RemoveAt(UserValues(last.before.storage), last.pos)
       /\ size(self) = size(last.before) - 1
       /\ apply(last.before.storage, last.out.ret).atoms = self.storage

(* C8. Projections: toArray(), map(f), forEach(f) and the d list of         *)
(* toJSON() visit the size() user values, in storage order, and no entry of *)
(* a sentinel.                                                              *)
C8_Projections ==
  \A r \in Replicas :
    LET self == Self(r)
    IN /\ toArray(self) = UserValues(self.storage)
       /\ forEach(self) = UserValues(self.storage)
       /\ map(self) = UserValues(self.storage)
       /\ Len(toJSON(self).d) = size(self)
       /\ \A i \in 1..Len(toJSON(self).d) :
            toJSON(self).d[i][1] \notin {IdentToString(MIN), IdentToString(MAX)}

(* C9. Replayable operations: the operation insert(v, pos) returns carries  *)
(* the replica's id, the allocated identifier and v; the operation          *)
(* remove(pos) returns carries the replica's id and the identifier of the   *)
(* removed atom; applied elsewhere, it adds or removes that identifier.     *)
C9_Replayable ==
  /\ InsertInRange =>
       /\ last.out.op.kind = OpKindInsert
       /\ last.out.op.replica = Str(last.replica)
       /\ last.out.op.id = last.out.id
       /\ last.out.op.value = last.value
       /\ last.out.threw = FALSE
       /\ last.out.ret = last.out.op
       /\ \A r \in Replicas :
            apply(storage[r], last.out.ret)
              = StorageAdd(storage[r], last.out.id, last.value)
  /\ RemoveInRange =>
       /\ last.out.op.kind = OpKindRemove
       /\ last.out.op.replica = Str(last.replica)
       /\ last.out.op.id = StorageGet(last.before.storage, last.pos + 1).id
       /\ last.out.threw = FALSE
       /\ last.out.ret = last.out.op
       /\ ~StorageHas(storage[last.replica], last.out.ret.id)
       /\ \A r \in Replicas :
            apply(storage[r], last.out.ret)
              = StorageRemove(storage[r], last.out.ret.id)

(* C10. Insert out of range: insert(v, pos) with pos < 0 or pos > size()    *)
(* throws, returns no operation and leaves the storage, size() and depth()  *)
(* of the replica as they were.                                             *)
C10_InsertOutOfRange ==
  InsertOutOfRange =>
    LET self == Self(last.replica)
    IN /\ last.out.threw = TRUE
       /\ last.out.ret = Undefined
       /\ self.storage = last.before.storage
       /\ size(self) = size(last.before)
       /\ depth(self) = depth(last.before)

\* insert(v, size() + 1) on a replica that holds two values: the atom at pos
\* is MAX and there is none at pos + 1.
C10_Witness ==
  /\ InsertOutOfRange
  /\ size(last.before) = 2
  /\ last.pos = 3
  /\ StorageGet(last.before.storage, last.pos).id = MAX
  /\ last.out.threw

\* The last call was remove with a position at or past size().
RemovePastEnd ==
  /\ last.call = "remove"
  /\ last.pos >= size(last.before)

(* C11. Remove past the end: remove(pos) with pos >= size() builds no        *)
(* operation, returns null without throwing and leaves the storage of the   *)
(* replica as it was.                                                       *)
C11_RemovePastEnd ==
  RemovePastEnd =>
    /\ last.out.op = Undefined
    /\ last.out.threw = FALSE
    /\ last.out.ret = Null
    /\ storage[last.replica] = last.before.storage

(* C12. Positional read: get(pos) returns the pos-th user value, counting   *)
(* from zero in storage order, when 0 <= pos < size(), and undefined for    *)
(* every other pos; it returns the null of no sentinel and changes nothing. *)
C12_PositionalRead ==
  last.call = "get" =>
    /\ last.out.ret = (IF 0 <= last.pos /\ last.pos < size(last.before)
                       THEN UserValues(last.before.storage)[last.pos + 1]
                       ELSE Undefined)
    /\ last.out.ret # Null
    /\ Self(last.replica) = last.before

(* C13. Op text round trip: Op.parse(op.toString()) returns, for an insert  *)
(* and for a remove, an operation of the same kind with the same replica,   *)
(* time and id and, for an insert, the same value.                          *)
C13_RoundTrip ==
  (last.call = "parse" /\ last.before # Undefined) =>
    /\ last.out.threw = FALSE
    /\ last.out.ret # Undefined
    /\ last.out.ret.kind = last.before.kind
    /\ last.out.ret.replica = last.before.replica
    /\ last.out.ret.time = last.before.time
    /\ last.out.ret.id = last.before.id
    /\ last.before.kind = OpKindInsert => last.out.ret.value = last.before.value

(* C14. Decode errors are surfaced: Op.parse of a text that is the encoding *)
(* of no operation (first character neither "+" nor "-", or malformed       *)
(* fields) fails with an error; it returns no value.                        *)
C14_DecodeErrors ==
  (last.call = "parse" /\ last.before = Undefined) =>
    /\ last.out.threw = TRUE
    /\ last.out.ret = Undefined

\* The atoms are strictly ascending by identifier.
Sorted(atoms) ==
  \A i \in 1..(Len(atoms) - 1) : Compare(atoms[i].id, atoms[i + 1].id) = -1

(* C15. Sorted storage: in every reachable state, whatever local inserts    *)
(* and removes and remote operations were interleaved, every replica's      *)
(* storage is strictly ascending by identifier and holds no identifier      *)
(* twice.                                                                   *)
C15_SortedStorage ==
  \A r \in Replicas :
    /\ Sorted(storage[r])
    /\ \A i, j \in 1..Len(storage[r]) :
         storage[r][i].id = storage[r][j].id => i = j

\* The insert of X1 was applied after the insert of the greater X2 and after
\* a local insert on the same replica: X1 went in front of X2.
C15_Witness ==
  /\ last.call = "apply"
  /\ last.out.op = InsertX1
  /\ idGenerator[last.replica].time > 0
  /\ StorageHas(last.before.storage, X2)
  /\ ~StorageHas(last.before.storage, X1)
  /\ StorageGet(storage[last.replica], 1).id = X1
  /\ StorageGet(storage[last.replica], 2).id = X2

(* C16. Order stability: two identifiers that a storage has held in one     *)
(* order are held in the other order by no storage, of the same replica     *)
(* later or of another replica, whatever was inserted, removed or applied   *)
(* in between.                                                              *)
C16_OrderStable ==
  \A r \in Replicas : \A p \in InOrderPairs(storage[r]) : <<p[2], p[1]>> \notin ordered

\* Both replicas hold X1 before X2 after a local insert on a; replica b
\* received the remove of X1 before its insert.
C16_Witness ==
  /\ fate["a"][X1] = "inserted" /\ fate["a"][X2] = "inserted"
  /\ fate["b"][X1] = "resurrected" /\ fate["b"][X2] = "inserted"
  /\ <<X1, X2>> \in InOrderPairs(storage["a"])
  /\ <<X1, X2>> \in InOrderPairs(storage["b"])
  /\ idGenerator["a"].time > 0

(* C17. Early remove resurrects: a remove applied while its identifier is   *)
(* absent neither throws nor changes the storage, and the identifier is     *)
(* present once its insert is applied afterwards; the content of that       *)
(* replica then differs from the content of a replica that applied the      *)
(* insert and then the remove.                                              *)
C17_Resurrects ==
  \A r \in Replicas : \A x \in DOMAIN fate[r] :
    /\ fate[r][x] # "failed"
    /\ fate[r][x] = "resurrected" =>
         /\ StorageHas(storage[r], x)
         /\ \A q \in Replicas :
              fate[q][x] = "removed" =>
                /\ ~StorageHas(storage[q], x)
                /\ storage[q] # storage[r]

\* Replica a applied the remove of X1 and then its insert, replica b the
\* insert and then the remove, and both applied the insert of X2.
C17_Witness ==
  /\ fate["a"][X1] = "resurrected"
  /\ fate["b"][X1] = "removed"
  /\ fate["a"][X2] = "inserted"
  /\ fate["b"][X2] = "inserted"

(* C18. Depth tracking: after an insert that allocated an identifier,       *)
(* depth() is the larger of depth() before the insert (nothing, on a fresh  *)
(* Sequence) and the depth of that identifier, so that depth() is the       *)
(* maximum depth of the identifiers allocated so far and never decreases.   *)
C18_DepthTracking ==
  InsertInRange =>
    LET now == depth(Self(last.replica))
        before == depth(last.before)
        allocated == getDepth(last.out.id)
    IN /\ now.tag = "number"
       /\ now.n >= allocated
       /\ before.tag = "number" => (now.n >= before.n /\ now.n \in {before.n, allocated})
       /\ before.tag # "number" => now.n = allocated

(* C19. Unknown op kind: apply(op) with an op whose kind is neither Insert  *)
(* nor Remove throws and leaves the replica, its storage included, as it    *)
(* was.                                                                     *)
C19_UnknownKind ==
  (last.call = "apply" /\ last.out.op.kind \notin {OpKindInsert, OpKindRemove}) =>
    /\ last.out.threw = TRUE
    /\ storage[last.replica] = last.before.storage
    /\ Self(last.replica) = last.before

\* apply(UnknownOp) on a replica that holds X1 but not X2, the identifier
\* the operation names.
C19_Witness ==
  /\ last.call = "apply"
  /\ last.out.op = UnknownOp
  /\ StorageHas(last.before.storage, X1)
  /\ ~StorageHas(last.before.storage, UnknownOp.id)
  /\ last.out.threw

\* s and t are equal, or one is the other with one atom taken out.
OneAtomApart(s, t) ==
  \/ s = t
  \/ \E k \in 0..(Len(t) - 1) : s = RemoveAt(t, k)
  \/ \E k \in 0..(Len(s) - 1) : t = RemoveAt(s, k)

(* C20. Single-atom, single-replica effect: a call of insert, remove or     *)
(* apply on a replica adds or removes at most one atom of that replica's    *)
(* storage, leaves its other atoms (identifier, value and order) as they    *)
(* were, and leaves the storage of every other replica unchanged.           *)
C20_Frame ==
  [][ /\ \A r \in Replicas : OneAtomApart(storage[r], storage'[r])
      /\ \A r, q \in Replicas :
           (storage'[r] # storage[r] /\ storage'[q] # storage[q]) => r = q ]_vars

\* The remove of X1 has taken X1 out of a replica that holds X2 as well,
\* after a local insert on it; the other replica still holds X1 and X2.
C20_Witness ==
  /\ last.call = "apply"
  /\ last.out.op = RemoveX1
  /\ StorageHas(last.before.storage, X1)
  /\ StorageHas(last.before.storage, X2)
  /\ storage[last.replica] = RemoveAt(last.before.storage, 1)
  /\ idGenerator[last.replica].time > 0
  /\ \E q \in Replicas :
       /\ q # last.replica
       /\ StorageHas(storage[q], X1)
       /\ StorageHas(storage[q], X2)

============================================================================
